---- MODULE Spec2Model ----
(***************************************************************************)
(* A model of the recipe extraction pipeline of recipe_viewer_app.py:      *)
(* fetch_text, split_recipes, the four field extractors, save_recipe and   *)
(* extract_and_store_all_recipes.                                          *)
(*                                                                         *)
(* Text is a sequence of characters, so that the regular expressions and   *)
(* the str methods of the source are modelled by what they do to           *)
(* characters.  A character is a one-character string; a character that a  *)
(* string of this language cannot spell is written as Python spells it:    *)
(* "\\x0b" is chr(11), "\\u2022" is the bullet U+2022.  The alphabet is    *)
(* ASCII, every white space and line break of Unicode, the bullet, the     *)
(* letters outside ASCII that re.IGNORECASE and str.lower relate to ASCII  *)
(* letters (U+0130, U+0131, U+017F, U+212A, and U+0307, which U+0130       *)
(* lowers to), and of the other letters and decimal digits of Unicode one  *)
(* pair of letters (U+00C9, U+00E9) and the Arabic-Indic digits.           *)
(*                                                                         *)
(* A float is written as repr() writes it, the shortest decimal that       *)
(* float() reads as the same double: <<n, e>> for n / 10^e, n a sequence   *)
(* of digit characters.                                                    *)
(***************************************************************************)
EXTENDS Integers, Sequences, FiniteSets, TLC

VARIABLES
    fn, arg, res,          \* a single call of one pure function (SpecExtract)
    source,                \* extract_and_store_all_recipes: source_text, is_file
    pc,                    \* position inside extract_and_store_all_recipes
    blocks,                \* blocks = split_recipes(raw_text)
    bi,                    \* index of the block the for loop is at
    title, ingredients, instructions, macros,   \* locals of the loop body
    recipe_id,             \* save_recipe: recipe_id
    k,                     \* save_recipe: position in the running insert loop
    db,                    \* the tables as the connection sees them
    committed,             \* the tables as of the last commit
    identity,              \* per table, the last value its IDENTITY column gave
    at_identity,           \* @@IDENTITY: the last identity value of the connection
    prior,                 \* the tables as the call found them
    log,                   \* every call made on the store, in order
    saved,                 \* indices of the blocks save_recipe was called for
    err                    \* the exception that left the call, if any

vars == <<fn, arg, res, source, pc, blocks, bi, title, ingredients,
          instructions, macros, recipe_id, k, db, committed, identity,
          at_identity, prior, log, saved, err>>

runVars == <<source, pc, blocks, bi, title, ingredients, instructions, macros,
             recipe_id, k, db, committed, identity, at_identity, prior, log,
             saved, err>>

fnVars == <<fn, arg, res>>

----------------------------------------------------------------------------
(* Characters and the str methods used by the source.                      *)

NL == "\n"

CR == "\r"

\* the characters str.isspace holds of, which are those of \s, of
\* str.strip() and of str.split()
WhiteSpace ==
    {"\t", "\n", "\\x0b", "\f", "\r", "\\x1c", "\\x1d", "\\x1e", "\\x1f", " ",
     "\\x85", "\\xa0", "\\u1680", "\\u2000", "\\u2001", "\\u2002", "\\u2003",
     "\\u2004", "\\u2005", "\\u2006", "\\u2007", "\\u2008", "\\u2009",
     "\\u200a", "\\u2028", "\\u2029", "\\u202f", "\\u205f", "\\u3000"}

\* the characters str.splitlines() breaks a line at
LineBreaks ==
    {"\n", "\r", "\\x0b", "\f", "\\x1c", "\\x1d", "\\x1e", "\\x85", "\\u2028",
     "\\u2029"}

Digits == {"0", "1", "2", "3", "4", "5", "6", "7", "8", "9"}

\* the decimal digits outside ASCII that the alphabet holds: U+0660..U+0669
OtherDigits ==
    {"\\u0660", "\\u0661", "\\u0662", "\\u0663", "\\u0664", "\\u0665",
     "\\u0666", "\\u0667", "\\u0668", "\\u0669"}

LowerLetters == {"a", "b", "c", "d", "e", "f", "g", "h", "i", "j", "k", "l", "m",
                 "n", "o", "p", "q", "r", "s", "t", "u", "v", "w", "x", "y", "z"}

\* the letters outside ASCII that the alphabet holds
OtherLetters == {"\\xc9", "\\xe9", "\\u0130", "\\u0131", "\\u017f", "\\u212a"}

\* the characters str.lower() replaces by one other character: the capital
\* letters, the Kelvin sign U+212A among them
UpperToLower ==
    ("A" :> "a") @@ ("B" :> "b") @@ ("C" :> "c") @@ ("D" :> "d") @@ ("E" :> "e") @@
    ("F" :> "f") @@ ("G" :> "g") @@ ("H" :> "h") @@ ("I" :> "i") @@ ("J" :> "j") @@
    ("K" :> "k") @@ ("L" :> "l") @@ ("M" :> "m") @@ ("N" :> "n") @@ ("O" :> "o") @@
    ("P" :> "p") @@ ("Q" :> "q") @@ ("R" :> "r") @@ ("S" :> "s") @@ ("T" :> "t") @@
    ("U" :> "u") @@ ("V" :> "v") @@ ("W" :> "w") @@ ("X" :> "x") @@ ("Y" :> "y") @@
    ("Z" :> "z") @@ ("\\u212a" :> "k") @@ ("\\xc9" :> "\\xe9")

\* str.lower() on one character: U+0130 becomes "i" and U+0307
Lower(c) ==
    IF c \in DOMAIN UpperToLower THEN <<UpperToLower[c]>>
    ELSE IF c = "\\u0130" THEN <<"i", "\\u0307">>
    ELSE <<c>>

\* str.lower()
LowerSeq(s) ==
    LET two == {i \in 1..Len(s) : Len(Lower(s[i])) = 2}
        at(i) == i + Cardinality({x \in two : x < i})
    IN  IF two = {} THEN [i \in 1..Len(s) |-> Lower(s[i])[1]]
        ELSE [j \in 1..(Len(s) + Cardinality(two)) |->
                LET i == CHOOSE x \in 1..Len(s) :
                            at(x) = j \/ (x \in two /\ at(x) + 1 = j)
                IN  Lower(s[i])[j - at(i) + 1]]

\* re.IGNORECASE: the character c matches the character p of a pattern.  A
\* letter matches in both cases, and "i", "k", "s" are matched by U+0130
\* and U+0131, by U+212A, by U+017F as well.
MatchesI(c, p) ==
    \/ c = p
    \/ p \in LowerLetters /\ c \in DOMAIN UpperToLower /\ UpperToLower[c] = p
    \/ p = "i" /\ c \in {"\\u0130", "\\u0131"}
    \/ p = "s" /\ c = "\\u017f"

\* \s
IsSpace(c) == c \in WhiteSpace

\* \d
IsDigit(c) == c \in Digits \cup OtherDigits

\* [A-Za-z] under re.IGNORECASE
IsLetter(c) == \E p \in LowerLetters : MatchesI(c, p)

\* \w
IsWordChar(c) ==
    \/ c \in LowerLetters
    \/ c \in DOMAIN UpperToLower
    \/ c \in OtherLetters
    \/ IsDigit(c)
    \/ c = "_"

\* the least element of a non-empty set of integers
Least(S) == CHOOSE m \in S : \A x \in S : m <= x

\* the text s holds the literal w at position p (1-based)
HasAt(s, p, w) ==
    /\ p >= 1
    /\ p + Len(w) - 1 <= Len(s)
    /\ \A i \in 1..Len(w) : s[p + i - 1] = w[i]

\* the literal w of a pattern compiled with re.IGNORECASE matches s at p
HasAtI(s, p, w) ==
    /\ p >= 1
    /\ p + Len(w) - 1 <= Len(s)
    /\ \A i \in 1..Len(w) : MatchesI(s[p + i - 1], w[i])

\* w in s
Contains(s, w) == \E p \in 1..(Len(s) - Len(w) + 1) : HasAt(s, p, w)

\* s.startswith(w)
StartsWith(s, w) == HasAt(s, 1, w)

\* the first position >= p of s that is no white space (Len(s)+1 when none)
SkipSpace(s, p) ==
    LET E == {q \in p..Len(s) : ~IsSpace(s[q])}
    IN  IF E = {} THEN (IF p > Len(s) THEN p ELSE Len(s) + 1) ELSE Least(E)

\* the first position >= p of s that is no digit (Len(s)+1 when none)
SkipDigits(s, p) ==
    LET E == {q \in p..Len(s) : ~IsDigit(s[q])}
    IN  IF E = {} THEN (IF p > Len(s) THEN p ELSE Len(s) + 1) ELSE Least(E)

\* the last position <= p of s that is no white space (0 when none)
SkipSpaceBack(s, p) ==
    LET E == {q \in 1..p : ~IsSpace(s[q])}
    IN  IF E = {} THEN 0 ELSE -Least({-q : q \in E})

\* str.strip()
Strip(s) == SubSeq(s, SkipSpace(s, 1), SkipSpaceBack(s, Len(s)))

\* the position of the first line break of s at or after p (Len(s)+1 when none)
LineEnd(s, p) ==
    LET B == {q \in p..Len(s) : s[q] \in LineBreaks}
    IN  IF B = {} THEN Len(s) + 1 ELSE Least(B)

\* the length of the line break at position e: "\r\n" is one break
BreakLen(s, e) == IF s[e] = CR /\ e < Len(s) /\ s[e + 1] = NL THEN 2 ELSE 1

\* str.splitlines(): a final line break opens no further line
RECURSIVE SplitLinesFrom(_, _)
SplitLinesFrom(s, p) ==
    IF p > Len(s) THEN <<>>
    ELSE LET e == LineEnd(s, p)
         IN  IF e > Len(s) THEN <<SubSeq(s, p, Len(s))>>
             ELSE <<SubSeq(s, p, e - 1)>> \o SplitLinesFrom(s, e + BreakLen(s, e))

SplitLines(s) == SplitLinesFrom(s, 1)

\* len(line.split()): the number of maximal runs of non-space characters
WordCount(s) ==
    Cardinality({p \in 1..Len(s) :
                    /\ ~IsSpace(s[p])
                    /\ (p = 1 \/ IsSpace(s[p - 1]))})

----------------------------------------------------------------------------
(* split_recipes: re.split(r"(?:^|\n)(?:recipe\s?:|===+|---+)", text, I)    *)

W_recipe == <<"r", "e", "c", "i", "p", "e">>

\* the length of the run of the character c that starts at position q
RECURSIVE RunLen(_, _, _)
RunLen(s, q, c) ==
    IF q <= Len(s) /\ s[q] = c THEN 1 + RunLen(s, q + 1, c) ELSE 0

\* DelimLen with the delimiter required to be the whole line, as if the
\* pattern ended in (?=\n|$)
DelimLenWholeLine(s, q) ==
    LET n == IF HasAtI(s, q, W_recipe) /\ HasAt(s, q + 6, <<":">>) THEN 7
             ELSE IF /\ HasAtI(s, q, W_recipe)
                     /\ q + 6 <= Len(s) /\ IsSpace(s[q + 6])
                     /\ HasAt(s, q + 7, <<":">>) THEN 8
             ELSE IF RunLen(s, q, "=") >= 3 THEN RunLen(s, q, "=")
             ELSE IF RunLen(s, q, "-") >= 3 THEN RunLen(s, q, "-")
             ELSE 0
    IN  IF n > 0 /\ (q + n > Len(s) \/ s[q + n] = NL) THEN n ELSE 0

\* recipe\s?:|===+|---+ matched at position q: the length matched, 0 if none.
\* The alternatives are tried in order; \s? takes a white space when the
\* colon follows it, and the runs are greedy.
DelimLen(s, q) ==
    IF HasAtI(s, q, W_recipe) /\ HasAt(s, q + 6, <<":">>) THEN 7
    ELSE IF /\ HasAtI(s, q, W_recipe)
            /\ q + 6 <= Len(s) /\ IsSpace(s[q + 6])
            /\ HasAt(s, q + 7, <<":">>) THEN 8
    ELSE IF RunLen(s, q, "=") >= 3 THEN RunLen(s, q, "=")
    ELSE IF RunLen(s, q, "-") >= 3 THEN RunLen(s, q, "-")
    ELSE 0

\* (?:^|\n)(?:...) matched at position p: the first position after the match,
\* 0 if there is no match at p.  ^ holds at the start of the text only, and
\* \n is the line feed, no other line break.
DelimEnd(s, p) ==
    IF p = 1 /\ DelimLen(s, 1) > 0 THEN 1 + DelimLen(s, 1)
    ELSE IF p <= Len(s) /\ s[p] = NL /\ DelimLen(s, p + 1) > 0
         THEN p + 1 + DelimLen(s, p + 1)
    ELSE 0

\* re.split: one scan from the left.  From position start on, the leftmost
\* match ends the block that began at start, and the scan goes on after the
\* match; what is left after the last match is the last block.
RECURSIVE SplitFrom(_, _)
SplitFrom(s, start) ==
    LET M == {p \in start..Len(s) : DelimEnd(s, p) > 0}
    IN  IF M = {} THEN <<SubSeq(s, start, Len(s))>>
        ELSE LET p == Least(M)
             IN  <<SubSeq(s, start, p - 1)>> \o SplitFrom(s, DelimEnd(s, p))

split_recipes(text) == SplitFrom(text, 1)

----------------------------------------------------------------------------
(* extract_ingredients                                                     *)

\* [-*\u2022]
Bullets == {"-", "*", "\\u2022"}

\* (cup|tsp|...|stick), in the order of the alternation
UnitWords == <<
    <<"c","u","p">>,
    <<"t","s","p">>,
    <<"t","b","s","p">>,
    <<"g">>,
    <<"g","r","a","m">>,
    <<"o","z">>,
    <<"m","l">>,
    <<"k","g">>,
    <<"l","b">>,
    <<"t","e","a","s","p","o","o","n">>,
    <<"t","a","b","l","e","s","p","o","o","n">>,
    <<"c","l","o","v","e">>,
    <<"s","l","i","c","e">>,
    <<"s","c","o","o","p">>,
    <<"p","a","c","k","e","t">>,
    <<"c","a","n">>,
    <<"s","t","i","c","k">> >>

\* ["cup", "tsp", "tbsp", "oz", "g", "ml", "kg", "lb"]
UnitSubstrings == <<
    <<"c","u","p">>,
    <<"t","s","p">>,
    <<"t","b","s","p">>,
    <<"o","z">>,
    <<"g">>,
    <<"m","l">>,
    <<"k","g">>,
    <<"l","b">> >>

\* ^[-*\u2022]?\s*\d+ : the position after the leading number, 0 if the line
\* does not begin with an optional bullet, white space and a number
AfterLeadingNumber(line) ==
    LET p1 == IF Len(line) >= 1 /\ line[1] \in Bullets THEN 2 ELSE 1
        p2 == SkipSpace(line, p1)
        p3 == SkipDigits(line, p2)
    IN  IF p3 > p2 THEN p3 ELSE 0

\* (unit)\b at position p: the unit word, then the end of the line or a
\* character that is no word character
UnitThenBoundary(line, p) ==
    \E i \in 1..Len(UnitWords) :
        /\ HasAtI(line, p, UnitWords[i])
        /\ LET e == p + Len(UnitWords[i])
           IN  e > Len(line) \/ ~IsWordChar(line[e])

\* re.match(r"^[-*\u2022]?\s*\d+(\.\d+)?\s?(cup|...|stick)\b", line, re.IGNORECASE)
MatchRuleA(line) ==
    LET p3 == AfterLeadingNumber(line)
        p4 == IF /\ p3 + 1 <= Len(line) /\ line[p3] = "."
                 /\ IsDigit(line[p3 + 1])
              THEN SkipDigits(line, p3 + 1) ELSE p3
        p5 == IF p4 <= Len(line) /\ IsSpace(line[p4]) THEN p4 + 1 ELSE p4
    IN  p3 > 0 /\ UnitThenBoundary(line, p5)

\* any(unit in line.lower() for unit in [...])
HasUnitSubstring(line) ==
    \E i \in 1..Len(UnitSubstrings) : Contains(LowerSeq(line), UnitSubstrings[i])

\* MatchRuleB with the unit looked for as a whole word instead of a substring
MatchRuleBWholeWord(line) ==
    LET p3 == AfterLeadingNumber(line)
    IN  /\ p3 > 0
        /\ p3 <= Len(line) /\ IsSpace(line[p3])
        /\ \E i \in 1..Len(UnitSubstrings) :
             \E p \in 1..Len(line) :
                /\ HasAtI(line, p, UnitSubstrings[i])
                /\ (p = 1 \/ ~IsWordChar(line[p - 1]))
                /\ LET e == p + Len(UnitSubstrings[i])
                   IN  e > Len(line) \/ ~IsWordChar(line[e])

\* re.match(r"^[-*\u2022]?\s*\d+\s.*", line) and any(unit in line.lower() ...)
MatchRuleB(line) ==
    LET p3 == AfterLeadingNumber(line)
    IN  /\ p3 > 0
        /\ p3 <= Len(line) /\ IsSpace(line[p3])
        /\ HasUnitSubstring(line)

\* the loop over text.splitlines(): a stripped line is appended when the
\* first pattern matches, or else when the second one does
RECURSIVE IngredientLoop(_, _)
IngredientLoop(lines, i) ==
    IF i > Len(lines) THEN <<>>
    ELSE LET line == Strip(lines[i])
         IN  IF MatchRuleA(line) THEN <<line>> \o IngredientLoop(lines, i + 1)
             ELSE IF MatchRuleB(line) THEN <<line>> \o IngredientLoop(lines, i + 1)
             ELSE IngredientLoop(lines, i + 1)

extract_ingredients(text) == IngredientLoop(SplitLines(text), 1)

----------------------------------------------------------------------------
(* extract_instructions                                                    *)

\* ["instructions", "directions", "method"]
HeaderWords == <<
    <<"i","n","s","t","r","u","c","t","i","o","n","s">>,
    <<"d","i","r","e","c","t","i","o","n","s">>,
    <<"m","e","t","h","o","d">> >>

\* ["macros", "nutrition", "course", "calories", "psst"]
StopWords == <<
    <<"m","a","c","r","o","s">>,
    <<"n","u","t","r","i","t","i","o","n">>,
    <<"c","o","u","r","s","e">>,
    <<"c","a","l","o","r","i","e","s">>,
    <<"p","s","s","t">> >>

W_tag_us == <<"t","a","g"," ","u","s">>

\* any(w in line.lower() for w in ws)
HasAnyWord(line, ws) == \E i \in 1..Len(ws) : Contains(LowerSeq(line), ws[i])

\* line and not line.lower().startswith("tag us") and len(line.split()) > 2
IsStep(line) ==
    /\ Len(line) > 0
    /\ ~StartsWith(LowerSeq(line), W_tag_us)
    /\ WordCount(line) > 2

\* InstructionLoop with the stop line resetting the flag instead of ending
\* the loop
RECURSIVE InstructionLoopResume(_, _, _)
InstructionLoopResume(lines, i, found) ==
    IF i > Len(lines) THEN <<>>
    ELSE LET line == Strip(lines[i])
         IN  IF ~found /\ HasAnyWord(line, HeaderWords)
             THEN InstructionLoopResume(lines, i + 1, TRUE)
             ELSE IF found
             THEN IF HasAnyWord(line, StopWords)
                  THEN InstructionLoopResume(lines, i + 1, FALSE)
                  ELSE IF IsStep(line)
                       THEN <<line>> \o InstructionLoopResume(lines, i + 1, TRUE)
                       ELSE InstructionLoopResume(lines, i + 1, TRUE)
             ELSE InstructionLoopResume(lines, i + 1, FALSE)

\* the loop over text.splitlines() from line i on, found being the flag
RECURSIVE InstructionLoop(_, _, _)
InstructionLoop(lines, i, found) ==
    IF i > Len(lines) THEN <<>>
    ELSE LET line == Strip(lines[i])
         IN  IF ~found /\ HasAnyWord(line, HeaderWords)
             THEN InstructionLoop(lines, i + 1, TRUE)            \* continue
             ELSE IF found
             THEN IF HasAnyWord(line, StopWords) THEN <<>>       \* break
                  ELSE IF IsStep(line)
                       THEN <<line>> \o InstructionLoop(lines, i + 1, TRUE)
                       ELSE InstructionLoop(lines, i + 1, TRUE)
             ELSE InstructionLoop(lines, i + 1, FALSE)

extract_instructions(text) == InstructionLoop(SplitLines(text), 1, FALSE)

----------------------------------------------------------------------------
(* extract_macros                                                          *)

\* (calories|protein|...|sodium), in the order of the alternation
MacroNames == <<
    <<"c","a","l","o","r","i","e","s">>,
    <<"p","r","o","t","e","i","n">>,
    <<"f","a","t">>,
    <<"c","a","r","b","s">>,
    <<"c","a","r","b","o","h","y","d","r","a","t","e","s">>,
    <<"f","i","b","e","r">>,
    <<"s","u","g","a","r">>,
    <<"c","h","o","l","e","s","t","e","r","o","l">>,
    <<"s","o","d","i","u","m">> >>

\* the value of a decimal digit, as float() takes it
DigitValue ==
    ("0" :> 0) @@ ("1" :> 1) @@ ("2" :> 2) @@ ("3" :> 3) @@ ("4" :> 4) @@
    ("5" :> 5) @@ ("6" :> 6) @@ ("7" :> 7) @@ ("8" :> 8) @@ ("9" :> 9) @@
    ("\\u0660" :> 0) @@ ("\\u0661" :> 1) @@ ("\\u0662" :> 2) @@
    ("\\u0663" :> 3) @@ ("\\u0664" :> 4) @@ ("\\u0665" :> 5) @@
    ("\\u0666" :> 6) @@ ("\\u0667" :> 7) @@ ("\\u0668" :> 8) @@
    ("\\u0669" :> 9)

\* the digits repr() writes a float with
DigitChar == <<"0", "1", "2", "3", "4", "5", "6", "7", "8", "9">>

(* float() gives the IEEE 754 double nearest to the literal, and a double   *)
(* holds 53 bits: the numbers below are exact whatever their size.  A       *)
(* decimal numeral is the sequence of its digits 0..9, the most significant *)
(* first, <<>> for 0.  A natural number is the sequence of its digits in    *)
(* base 1000, the least significant first, <<>> for 0: the arithmetic is    *)
(* done on these, three decimal digits at a time.                           *)

\* a numeral without its leading zeros
DropLeadingZeros(ds) ==
    SubSeq(ds, Len(ds) + 1 - Cardinality({i \in 1..Len(ds) :
                                \E j \in 1..i : ds[j] # 0}), Len(ds))

\* the number of zeros a numeral ends with
TrailingZeros(ds) ==
    Cardinality({i \in 1..Len(ds) : \A j \in i..Len(ds) : ds[j] = 0})

\* n zeros
Zeros(n) == [i \in 1..n |-> 0]

NatLimb(a, i) == IF i <= Len(a) THEN a[i] ELSE 0

\* a sequence of base-1000 digits without the zeros at its top
NatTrim(a) ==
    SubSeq(a, 1, Cardinality({i \in 1..Len(a) : \E j \in i..Len(a) : a[j] # 0}))

\* the number a numeral denotes
NatOfDigits(ds) ==
    LET dg(w) == IF w < Len(ds) THEN ds[Len(ds) - w] ELSE 0
    IN  NatTrim([i \in 1..((Len(ds) + 2) \div 3) |->
                    dg(3 * i - 3) + 10 * dg(3 * i - 2) + 100 * dg(3 * i - 1)])

\* the numeral of a number
DigitsOfNat(a) ==
    DropLeadingZeros([i \in 1..(3 * Len(a)) |->
        LET w == 3 * Len(a) - i
        IN  (a[(w \div 3) + 1] \div (10 ^ (w % 3))) % 10])

\* a < b
NatLess(a, b) ==
    \/ Len(a) < Len(b)
    \/ /\ Len(a) = Len(b)
       /\ \E i \in 1..Len(a) :
            a[i] < b[i] /\ \A j \in (i + 1)..Len(a) : a[j] = b[j]

\* a + b: a digit takes a carry when a lower digit overflows and those
\* between are full
NatAdd(a, b) ==
    LET n == (IF Len(a) > Len(b) THEN Len(a) ELSE Len(b)) + 1
        s == [i \in 1..n |-> NatLimb(a, i) + NatLimb(b, i)]
        carry(i) == IF \E j \in 1..(i - 1) :
                          s[j] >= 1000 /\ \A h \in (j + 1)..(i - 1) : s[h] = 999
                    THEN 1 ELSE 0
    IN  NatTrim([i \in 1..n |-> (s[i] + carry(i)) % 1000])

\* a - b, for a >= b
NatSub(a, b) ==
    LET d == [i \in 1..Len(a) |-> a[i] - NatLimb(b, i)]
        borrow(i) == IF \E j \in 1..(i - 1) :
                           d[j] < 0 /\ \A h \in (j + 1)..(i - 1) : d[h] = 0
                     THEN 1 ELSE 0
    IN  NatTrim([i \in 1..Len(a) |-> (d[i] - borrow(i) + 1000) % 1000])

\* the sum of a[j] * b[i + 1 - j] for j in lo..hi
RECURSIVE NatColumn(_, _, _, _, _)
NatColumn(a, b, i, lo, hi) ==
    IF lo > hi THEN 0
    ELSE IF lo = hi THEN a[lo] * b[i + 1 - lo]
    ELSE LET mid == (lo + hi) \div 2
         IN  NatColumn(a, b, i, lo, mid) + NatColumn(a, b, i, mid + 1, hi)

\* a * b: the columns of the long multiplication, each below 2^31, added up
\* digit by digit
NatMul(a, b) ==
    IF a = <<>> \/ b = <<>> THEN <<>>
    ELSE LET n == Len(a) + Len(b) - 1
             col == [i \in 1..n |->
                        NatColumn(a, b, i,
                                  IF i + 1 - Len(b) > 1 THEN i + 1 - Len(b) ELSE 1,
                                  IF i < Len(a) THEN i ELSE Len(a))]
             part(w) == NatTrim([i \in 1..(n + w) |->
                            IF i <= w THEN 0
                            ELSE (col[i - w] \div (1000 ^ w)) % 1000])
         IN  NatAdd(NatAdd(part(0), part(1)), NatAdd(part(2), part(3)))

\* b ^ n for a digit b
RECURSIVE NatPow(_, _)
NatPow(b, n) ==
    IF n = 0 THEN <<1>>
    ELSE LET h == NatPow(b, n \div 2)
         IN  IF n % 2 = 1 THEN NatMul(NatMul(h, h), <<b>>) ELSE NatMul(h, h)

\* a double holds 53 bits
MantissaBits == 53

\* the exponent of the least bit of the smallest doubles: they are the
\* multiples of 2^-1074
MinExponent == -1074

\* the exponent of the least bit of the largest doubles: they are below
\* 2^53 * 2^971 = 2^1024
MaxExponent == 971

\* 2^52 and 2^53: a double that is no multiple of 2^-1074 only has its 53 bits
\* from 2^52 up to 2^53
TwoTo52 == NatPow(2, MantissaBits - 1)

TwoTo53 == NatPow(2, MantissaBits)

\* a literal of at most 15 significant digits is the shortest decimal of the
\* double nearest to it (DBL_DIG)
DecimalDigits == 15

\* at most 17 significant digits tell a double from every other
ReprDigits == 17

\* the number N * 10^p / 2^x, for the numeral ds of N, written out: its
\* integer part and the digits after its point.  Dividing by 2 is
\* multiplying by 5 and moving the point.
Scaled(ds, p, x) ==
    LET W == DigitsOfNat(NatMul(NatOfDigits(ds),
                                IF x >= 0 THEN NatPow(5, x) ELSE NatPow(2, -x)))
        s == IF x >= 0 THEN p - x ELSE p
    IN  IF s >= 0 THEN [int |-> W \o Zeros(s), frac |-> <<>>]
        ELSE [int |-> SubSeq(W, 1, Len(W) + s),
              frac |-> [i \in 1..(-s) |->
                           IF Len(W) + s + i >= 1 THEN W[Len(W) + s + i] ELSE 0]]

\* a double: m * 2^x with m < 2^53, m = <<>> for 0.0; inf for a number out
\* of range
Double(m, x) ==
    IF x > MaxExponent THEN [inf |-> TRUE, m |-> <<>>, x |-> 0]
    ELSE [inf |-> FALSE, m |-> m, x |-> IF m = <<>> THEN 0 ELSE x]

\* the number int.frac * 2^x rounded to a multiple of 2^x, a tie going to the
\* even one; 53 bits that round up to 2^53 are 2^52 with the next exponent
RoundHalfEven(int, frac, x) ==
    LET rest == \E i \in 2..Len(frac) : frac[i] # 0
        above == frac # <<>> /\ (frac[1] > 5 \/ (frac[1] = 5 /\ rest))
        tie == frac # <<>> /\ frac[1] = 5 /\ ~rest
        up == above \/ (tie /\ NatLimb(int, 1) % 2 = 1)
    IN  IF up /\ NatAdd(int, <<1>>) = TwoTo53 THEN Double(TwoTo52, x + 1)
        ELSE IF up THEN Double(NatAdd(int, <<1>>), x)
        ELSE Double(int, x)

\* the bits a number has over 53 (at most 7 here)
BitsOver(q) ==
    Cardinality({j \in 0..7 : ~NatLess(q, NatMul(TwoTo53, <<2 ^ j>>))})

\* the double nearest to r * 2^x, r written out as by Scaled with at least 53
\* bits before the point, or with x = -1074: the bits over 53 go into the
\* exponent
NearestTo(r, x, over) ==
    LET q == Scaled(r.int \o r.frac, -Len(r.frac), over)
    IN  RoundHalfEven(NatOfDigits(q.int), q.frac, x + over)

\* an exponent that leaves a number below 10^L, and not below 10^(L-1), at
\* least 53 bits before the point: log2(10) = 3.321928...
FirstExponent(L) ==
    LET lo == (((L - 1) * 3321928) \div 1000000) - 1 - (MantissaBits - 1)
    IN  IF lo > MinExponent THEN lo ELSE MinExponent

\* the double nearest to r * 2^x, r as for NearestTo
NearestAt(r, x) == NearestTo(r, x, BitsOver(NatOfDigits(r.int)))

\* the double nearest to N * 10^p, N > 0 with the numeral ds, a tie going to
\* the even one: what float() gives.  10^310 and more is out of range, less
\* than 10^-331 is nearest to 0.0.
NearestDouble(ds, p) ==
    IF Len(ds) + p > 310 THEN Double(<<>>, MaxExponent + 1)
    ELSE IF Len(ds) + p < -330 THEN Double(<<>>, 0)
    ELSE NearestAt(Scaled(ds, p, FirstExponent(Len(ds) + p)),
                   FirstExponent(Len(ds) + p))

\* the decimal n / 10^e as <<n, e>>: n a numeral in the characters 0..9 ("0"
\* for 0), e >= 0 the least possible
Decimal(ds, e) ==
    LET drop == IF TrailingZeros(ds) < e THEN TrailingZeros(ds) ELSE e
    IN  IF ds = <<>> THEN << <<"0">>, 0 >>
        ELSE <<[i \in 1..(Len(ds) - drop) |-> DigitChar[ds[i] + 1]], e - drop>>

\* inf, as repr() writes it: float() of a literal that is out of range (from
\* about 1.8 * 10^308 on)
Infinity == << <<"i", "n", "f">>, 0 >>

\* c lies between Lo and Hi, the two included if closed
Within(c, Lo, Hi, closed) ==
    IF closed THEN ~NatLess(c, Lo) /\ ~NatLess(Hi, c)
    ELSE NatLess(Lo, c) /\ NatLess(c, Hi)

\* the number with the numeral Vd cut down to j significant digits
CutDown(Vd, j) == NatOfDigits(SubSeq(Vd, 1, j) \o Zeros(Len(Vd) - j))

\* the next number of j significant digits above it
CutUp(Vd, j) ==
    NatAdd(CutDown(Vd, j), NatOfDigits(<<1>> \o Zeros(Len(Vd) - j)))

\* of down <= V < up the one within Lo and Hi; of two the nearer to V; of two
\* as near the one with the even last digit
Nearer(V, down, up, Lo, Hi, closed, downIsEven) ==
    IF ~Within(up, Lo, Hi, closed) THEN down
    ELSE IF ~Within(down, Lo, Hi, closed) THEN up
    ELSE IF NatLess(NatSub(V, down), NatSub(up, V)) THEN down
    ELSE IF NatLess(NatSub(up, V), NatSub(V, down)) THEN up
    ELSE IF downIsEven THEN down ELSE up

\* V, with the numeral Vd, as a decimal of j significant digits within Lo
\* and Hi
NearestOf(V, Vd, Lo, Hi, closed, j) ==
    Nearer(V, CutDown(Vd, j), CutUp(Vd, j), Lo, Hi, closed, Vd[j] % 2 = 0)

\* the shortest decimal within Lo and Hi, and of those the nearest to V (Vd
\* is the numeral of V): at most 17 digits are needed
Shortest(V, Vd, Lo, Hi, closed) ==
    NearestOf(V, Vd, Lo, Hi, closed,
           Least({j \in 1..(IF Len(Vd) < ReprDigits THEN Len(Vd) ELSE ReprDigits) :
                     \/ Within(CutDown(Vd, j), Lo, Hi, closed)
                     \/ Within(CutUp(Vd, j), Lo, Hi, closed)}))

\* Repr for the double V, in units of 10^-e, the midpoint to the next double
\* below it being `below` units away and the one to the next double above it
\* `above` units
ReprAround(V, below, above, closed, e) ==
    Decimal(DigitsOfNat(Shortest(V, DigitsOfNat(V), NatSub(V, below),
                                 NatAdd(V, above), closed)), e)

\* Repr for the double c units of 10^-e, the midpoints to its neighbours one
\* unit below and up units above
ReprUnits(c, unit, up, closed, e) ==
    ReprAround(NatMul(c, unit), unit, NatMul(<<up>>, unit), closed, e)

\* Repr for the double c * 2^y, the midpoints to its neighbours 2^y below
\* and up * 2^y above: 2^-n is 5^n / 10^n
ReprScaled(c, y, up, closed) ==
    IF y >= 0 THEN ReprUnits(c, NatPow(2, y), up, closed, 0)
    ELSE ReprUnits(c, NatPow(5, -y), up, closed, -y)

\* a double m * 2^x, m > 0, as repr() writes it: the shortest decimal that
\* float() gives this double for, and of those the nearest to it.  float()
\* gives this double for the decimals between the two midpoints to its
\* neighbours, the midpoints included when m is even.  The midpoints are
\* 2^(x-1) away, but for 2^52 * 2^x the one below is 2^(x-2) away: under a
\* power of two the doubles lie twice as close.
Repr(m, x) ==
    IF m = TwoTo52 /\ x > MinExponent
    THEN ReprScaled(NatMul(m, <<4>>), x - 2, 2, TRUE)
    ELSE ReprScaled(NatMul(m, <<2>>), x - 1, 1, NatLimb(m, 1) % 2 = 0)

\* the float a double is, as repr() writes it
ReprOf(v) ==
    IF v.inf THEN Infinity
    ELSE IF v.m = <<>> THEN Decimal(<<>>, 0)
    ELSE Repr(v.m, v.x)

\* float() of N * 10^p, ds the numeral of N.  A number of at most 15
\* significant digits is itself the shortest decimal of the double nearest
\* to it (DBL_DIG), where doubles have their 53 bits: from 10^-291 to 10^290
\* they have.
FloatOf(ds, p) ==
    IF ds = <<>> THEN Decimal(<<>>, 0)
    ELSE IF /\ Len(ds) - TrailingZeros(ds) <= DecimalDigits
            /\ Len(ds) + p \in -290..290
         THEN Decimal(ds, -p)
    ELSE ReprOf(NearestDouble(ds, p))

\* the numeral of a run of decimal digits
Numeral(run) == DropLeadingZeros([i \in 1..Len(run) |-> DigitValue[run[i]]])

\* float(lit) for a literal \d+\.?\d*, as repr() writes it: <<n, e>> for the
\* decimal n / 10^e (see Decimal), Infinity for inf.  Two literals give the
\* same pair exactly when float() gives them the same double.
ParseFloat(lit) ==
    LET d == SkipDigits(lit, 1)
        frac == SubSeq(lit, d + 1, Len(lit))
    IN  FloatOf(Numeral(SubSeq(lit, 1, d - 1) \o frac), -Len(frac))

\* the first position >= p of s that holds a digit (Len(s)+1 when none)
SkipNonDigits(s, p) ==
    LET D == {q \in p..Len(s) : IsDigit(s[q])}
    IN  IF D = {} THEN Len(s) + 1 ELSE Least(D)

\* the pattern (name)[^\d]*(\d+\.?\d*) matched at position p: the spans of the
\* match as [name, number, end], the first positions of group 1 and of
\* group 2 and the first position after the match, which is the end of
\* group 2; end = 0 if there is no match at p.  Group 1 is the first name of
\* the alternation that is at p, [^\d]* runs to the next digit, and
\* backtracking finds no other match.
MacroSpanAt(s, p) ==
    LET hit == {i \in 1..Len(MacroNames) : HasAtI(s, p, MacroNames[i])}
        i == Least(hit)
        d == SkipNonDigits(s, p + Len(MacroNames[i]))
        e1 == SkipDigits(s, d)
        e2 == IF e1 <= Len(s) /\ s[e1] = "." THEN SkipDigits(s, e1 + 1) ELSE e1
    IN  IF hit = {} \/ d > Len(s) THEN [name |-> p, number |-> p, end |-> 0]
        ELSE [name |-> p + Len(MacroNames[i]), number |-> d, end |-> e2]

\* the match at position p, as the loop takes it: name is
\* match.group(1).lower(), value float(match.group(2)), and end the first
\* position after the match
MacroMatchAt(s, p) ==
    LET m == MacroSpanAt(s, p)
    IN  [name |-> LowerSeq(SubSeq(s, p, m.name - 1)),
         value |-> ParseFloat(SubSeq(s, m.number, m.end - 1)),
         end |-> m.end]

\* pattern.finditer(text): the matches from the left, none overlapping
RECURSIVE FindMacros(_, _)
FindMacros(s, p) ==
    LET M == {q \in p..Len(s) : MacroSpanAt(s, q).end > 0}
    IN  IF M = {} THEN <<>>
        ELSE LET m == MacroMatchAt(s, Least(M))
             IN  <<[name |-> m.name, value |-> m.value]>> \o FindMacros(s, m.end)

\* DictSet that keeps the value a key already has (macros.setdefault)
DictSetKeepFirst(d, name, value) ==
    IF \E i \in 1..Len(d) : d[i].name = name
    THEN d
    ELSE Append(d, [name |-> name, value |-> value])

\* macros[name] = value on a dict kept as the sequence of its items, in
\* insertion order: a known key keeps its place and takes the new value
DictSet(d, name, value) ==
    IF \E i \in 1..Len(d) : d[i].name = name
    THEN [i \in 1..Len(d) |->
            IF d[i].name = name THEN [name |-> name, value |-> value] ELSE d[i]]
    ELSE Append(d, [name |-> name, value |-> value])

\* the loop over the matches, from the empty dict
RECURSIVE MacroLoop(_, _, _)
MacroLoop(ms, i, d) ==
    IF i > Len(ms) THEN d
    ELSE MacroLoop(ms, i + 1, DictSet(d, ms[i].name, ms[i].value))

extract_macros(text) == MacroLoop(FindMacros(text, 1), 1, <<>>)

----------------------------------------------------------------------------
(* The title, as extract_and_store_all_recipes derives it                  *)

W_untitled == <<"U","n","t","i","t","l","e","d"," ","R","e","c","i","p","e">>

\* [A-Za-z ,] under re.IGNORECASE
IsTitleChar(c) == IsLetter(c) \/ c \in {" ", ","}

\* (recipe\s*[:\-]) matched at position p: the position after it, 0 if none
LabelEnd(s, p) ==
    LET q == SkipSpace(s, p + 6)
    IN  IF HasAtI(s, p, W_recipe) /\ q <= Len(s) /\ s[q] \in {":", "-"}
        THEN q + 1 ELSE 0

\* the greatest position in p..q that holds a title character, 0 if none
RECURSIVE BackToTitleChar(_, _, _)
BackToTitleChar(s, p, q) ==
    IF q < p THEN 0
    ELSE IF q <= Len(s) /\ IsTitleChar(s[q]) THEN q
    ELSE BackToTitleChar(s, p, q - 1)

\* \s*([A-Za-z ,]+) matched at position p: where group 2 starts, 0 if there
\* is no match.  \s* is greedy and gives white space back, one character at
\* a time, until the character class finds a character to start on.
RunStart(s, p) == BackToTitleChar(s, p, SkipSpace(s, p))

\* the first position >= p of s that holds no title character
RunEnd(s, p) ==
    LET E == {q \in p..Len(s) : ~IsTitleChar(s[q])}
    IN  IF E = {} THEN Len(s) + 1 ELSE Least(E)

\* the whole pattern matched at position p: where group 2 starts, 0 if there
\* is no match at p.  The optional label is tried first, then its absence.
TitleMatchAt(s, p) ==
    LET le == LabelEnd(s, p)
        g1 == IF le > 0 THEN RunStart(s, le) ELSE 0
    IN  IF g1 > 0 THEN g1 ELSE RunStart(s, p)

\* re.search: the match at the leftmost position that has one; 0 if none
TitleSearch(s, p) ==
    LET M == {q \in p..Len(s) : TitleMatchAt(s, q) > 0}
    IN  IF M = {} THEN 0 ELSE TitleMatchAt(s, Least(M))

\* title_match.group(2).strip() if title_match else "Untitled Recipe",
\* the search being made in block.strip()
title_of(block) ==
    LET s == Strip(block)
        g == TitleSearch(s, 1)
    IN  IF g > 0 THEN Strip(SubSeq(s, g, RunEnd(s, g) - 1)) ELSE W_untitled

----------------------------------------------------------------------------
(* Inputs of the pure functions: texts of a few lines, the lines drawn     *)
(* from a pool per function.                                               *)

MaxSplitLines == 3
MaxIngredientLines == 3
MaxInstructionLines == 4
MaxMacroLines == 3

\* "\n".join(ls)
RECURSIVE JoinLines(_)
JoinLines(ls) ==
    IF Len(ls) = 0 THEN <<>>
    ELSE IF Len(ls) = 1 THEN ls[1]
    ELSE ls[1] \o <<NL>> \o JoinLines(Tail(ls))

\* the texts of at most n lines of the pool
TextsOf(pool, n) ==
    {JoinLines([i \in 1..Len(f) |-> pool[f[i]]]) :
        f \in UNION {[1..m -> 1..Len(pool)] : m \in 0..n}}

L_dashes_ab == <<"-","-","-","a","b">>
L_recipe_cake == <<"r","e","c","i","p","e"," ","c","a","k","e">>

SplitLinePool == <<
    <<"R","e","c","i","p","e",":"," ","A">>,
    <<"R","E","C","I","P","E"," ",":","x">>,
    <<"-","-","-">>,
    <<"=","=","=","=">>,
    <<"-","-">>,
    <<"t","x","t">>,
    L_dashes_ab,
    L_recipe_cake,
    <<"-","-","-","\r">>,
    <<"x","\r","-","-","-">>,
    <<"r","e","c","\\u0130","p","e",":","z">> >>

L_2_cups_flour == <<"2"," ","c","u","p","s"," ","f","l","o","u","r">>
L_2_cupcakes == <<"2"," ","c","u","p","c","a","k","e","s">>
L_2cupcakes == <<"2","c","u","p","c","a","k","e","s">>

IngredientLinePool == <<
    L_2_cups_flour,
    L_2_cupcakes,
    L_2cupcakes,
    <<" ","*"," ","1",".","5"," ","T","S","P"," ","s","a","l","t">>,
    <<"3"," ","l","e","m","o","n","s">>,
    <<"2","c","a","n">>,
    <<"2"," ","g","r","a","m">>,
    <<"\\u2022"," ","2"," ","c","u","p","s">>,
    <<"1"," ","t","s","p"," ","s","a","l","t","\r">>,
    <<"\\u0662","\\xa0","\\u212a","g">> >>

L_header == <<"T","h","e"," ","M","e","t","h","o","d">>
L_step == <<" ","A","d","d"," ","t","h","e"," ","m","i","l","k"," ">>
L_stop == <<"M","a","c","r","o","s"," ","f","a","t"," ","5">>

InstructionLinePool == <<
    L_header,
    L_step,
    L_stop,
    <<"S","t","i","r"," ","w","e","l","l">>,
    <<"T","a","g"," ","u","s"," ","o","n"," ","i","t">>,
    <<>>,
    <<"m","e","t","h","o","d","\r","S","t","i","r"," ","i","t"," ","i","n">>,
    <<"a","\\x1f","b","\\x1f","c">> >>

T_fat_5_fat_8 == <<"f","a","t"," ","5","\n","t","x","t","\n","f","a","t"," ","8">>

\* "fat 9007199254740993": 2^53 + 1, which is no double
L_fat_2_53_1 ==
    <<"f","a","t"," ","9","0","0","7","1","9","9","2","5","4","7","4","0","9","9","3">>

MacroLinePool == <<
    <<"f","a","t"," ","5">>,
    <<"f","a","t"," ","8">>,
    <<"F","A","T">>,
    <<"t","x","t">>,
    <<"c","a","r","b","s",":"," ","1","0",".","5","0">>,
    <<"7">>,
    <<"\\u017f","u","g","a","r"," ","4">>,
    <<"S","u","g","a","r"," ","\\u0663">>,
    L_fat_2_53_1 >>

----------------------------------------------------------------------------
(* The specification of single calls of the pure functions: Init draws the *)
(* function and its argument, the one step is the call.                    *)

InitRun ==
    /\ source = [is_file |-> FALSE, data |-> <<>>]
    /\ pc = "idle"
    /\ blocks = <<>>
    /\ bi = 0
    /\ title = <<>>
    /\ ingredients = <<>>
    /\ instructions = <<>>
    /\ macros = <<>>
    /\ recipe_id = 0
    /\ k = 0
    /\ db = [recipes |-> <<>>, ingredients |-> <<>>, instructions |-> <<>>, macros |-> <<>>]
    /\ committed = [recipes |-> <<>>, ingredients |-> <<>>, instructions |-> <<>>, macros |-> <<>>]
    /\ identity = [recipes |-> 0, ingredients |-> 0, instructions |-> 0, macros |-> 0]
    /\ at_identity = 0
    /\ prior = [recipes |-> <<>>, ingredients |-> <<>>, instructions |-> <<>>, macros |-> <<>>]
    /\ log = <<>>
    /\ saved = {}
    /\ err = "none"

InitExtract ==
    /\ InitRun
    /\ res = <<>>
    /\ \/ fn = "split_recipes" /\ arg \in TextsOf(SplitLinePool, MaxSplitLines)
       \/ fn = "extract_ingredients" /\ arg \in TextsOf(IngredientLinePool, MaxIngredientLines)
       \/ fn = "extract_instructions" /\ arg \in TextsOf(InstructionLinePool, MaxInstructionLines)
       \/ fn = "extract_macros" /\ arg \in TextsOf(MacroLinePool, MaxMacroLines)

\* res is <<>> before the call and <<the value returned>> after it
Returned == res # <<>>

CallSplitRecipes ==
    /\ fn = "split_recipes" /\ ~Returned
    /\ res' = <<split_recipes(arg)>>
    /\ UNCHANGED <<fn, arg, runVars>>

CallExtractIngredients ==
    /\ fn = "extract_ingredients" /\ ~Returned
    /\ res' = <<extract_ingredients(arg)>>
    /\ UNCHANGED <<fn, arg, runVars>>

CallExtractInstructions ==
    /\ fn = "extract_instructions" /\ ~Returned
    /\ res' = <<extract_instructions(arg)>>
    /\ UNCHANGED <<fn, arg, runVars>>

CallExtractMacros ==
    /\ fn = "extract_macros" /\ ~Returned
    /\ res' = <<extract_macros(arg)>>
    /\ UNCHANGED <<fn, arg, runVars>>

NextExtract ==
    \/ CallSplitRecipes
    \/ CallExtractIngredients
    \/ CallExtractInstructions
    \/ CallExtractMacros

SpecExtract == InitExtract /\ [][NextExtract]_vars

----------------------------------------------------------------------------
(* extract_and_store_all_recipes and save_recipe, a store call at a time.  *)

\* len(block.strip()) < 20
MinBlockLength == 20

TooShort(block) == Len(Strip(block)) < MinBlockLength

\* Storable with "and" for "or"
StorableWithBoth(ings, instrs) == ings # <<>> /\ instrs # <<>>

\* if ingredients or instructions
Storable(ings, instrs) == ings # <<>> \/ instrs # <<>>

\* numbering from 0, as enumerate(instructions) does
StepNumberFromZero(i) == i - 1

\* enumerate(instructions, 1): the number of the i-th instruction
StepNumber(i) == i

W_http == <<"h", "t", "t", "p">>

\* the content of an uploaded file that is no UTF-8 text
InvalidUtf8 == <<"0xFF">>

\* the answer of requests.get when the request raises
RequestFailed == <<"requests.RequestException">>

\* fetch_text(source, is_file), reply being what the web answers to a
\* request: [ok |-> TRUE, text |-> the text returned], or ok |-> FALSE when
\* the call raises
fetch_text(src, reply) ==
    IF src.is_file
    THEN IF src.data = InvalidUtf8 THEN [ok |-> FALSE, text |-> <<>>]
         ELSE [ok |-> TRUE, text |-> src.data]
    ELSE IF StartsWith(src.data, W_http)
    THEN IF reply = RequestFailed THEN [ok |-> FALSE, text |-> <<>>]
         ELSE [ok |-> TRUE, text |-> reply]
    ELSE [ok |-> TRUE, text |-> src.data]

\* the tables create_tables makes where there are none, empty
EmptyTables ==
    [recipes |-> <<>>, ingredients |-> <<>>, instructions |-> <<>>, macros |-> <<>>]

\* the database of the first call: create_tables has made the four tables,
\* and no IDENTITY column has given a value
NewDatabase ==
    [tables |-> EmptyTables,
     identity |-> [recipes |-> 0, ingredients |-> 0, instructions |-> 0, macros |-> 0]]

\* a database earlier calls have written to, which create_tables leaves as
\* it is (IF NOT EXISTS): a first call failed after it had inserted a recipe
\* and an ingredient, which were rolled back and whose identity values stay
\* used; a second call stored one recipe
UsedDatabase ==
    [tables |->
        [recipes |-> <<[id |-> 2, title |-> <<"M","i","n","t"," ","t","e","a">>]>>,
         ingredients |-> <<[id |-> 2, recipe_id |-> 2, ingredient |-> <<"1"," ","c","u","p"," ","o","f"," ","m","i","n","t"," ","t","e","a">>]>>,
         instructions |-> <<>>,
         macros |-> <<[id |-> 1, recipe_id |-> 2, name |-> <<"s","u","g","a","r">>, value |-> << <<"1">>, 0 >>]>>],
     identity |-> [recipes |-> 2, ingredients |-> 2, instructions |-> 0, macros |-> 1]]

\* the databases a call can find
Databases == {NewDatabase, UsedDatabase}

\* the store stages of save_recipe, in the order of its statements
StoreStages ==
    <<"insert_recipe", "select_identity", "insert_ingredient",
      "insert_instruction", "insert_macro", "commit">>

\* the stage save_recipe is at after stage number n: a for loop over an empty
\* list makes no store call
RECURSIVE StageAfter(_, _, _, _)
StageAfter(n, ings, instrs, macs) ==
    IF n + 1 = 3 /\ ings = <<>> THEN StageAfter(n + 1, ings, instrs, macs)
    ELSE IF n + 1 = 4 /\ instrs = <<>> THEN StageAfter(n + 1, ings, instrs, macs)
    ELSE IF n + 1 = 5 /\ macs = <<>> THEN StageAfter(n + 1, ings, instrs, macs)
    ELSE StoreStages[n + 1]

\* a store call and how it ended, appended to the log
Logged(op, ok) == Append(log, [block |-> bi, op |-> op, ok |-> ok])

----------------------------------------------------------------------------
(* The inputs of a run: texts made of a few blocks with "---" lines        *)
(* between them, given as such, uploaded, or fetched from a URL.           *)

MaxBlocks == 3

\* a block with the line ends of a text file of Windows
B_full == <<"O","a","t"," ","b","o","w","l","\r","\n","2"," ","c","u","p","s"," ","o","a","t","s","\r","\n","1"," ","t","s","p"," ","s","a","l","t","\r","\n","M","e","t","h","o","d","\r","\n","M","i","x"," ","i","t"," ","a","l","l"," ","w","e","l","l","\r","\n","M","a","c","r","o","s"," ","f","a","t"," ","5"," ","c","a","r","b","s"," ","9">>

B_macros_only == <<"P","r","o","t","e","i","n"," ","3","0"," ","a","n","d"," ","f","a","t"," ","9"," ","p","e","r"," ","b","a","r">>

B_short == <<"2"," ","c","u","p","s"," ","o","a","t","s">>

B_steps == <<"1"," ","2"," ","3","\n","D","i","r","e","c","t","i","o","n","s","\n","S","t","i","r"," ","t","h","e"," ","o","a","t","s"," ","w","e","l","l","\n","T","a","g"," ","u","s"," ","o","n"," ","i","t","\n","S","t","i","r"," ","w","e","l","l","\n","A","d","d"," ","t","h","e"," ","m","i","l","k"," ","n","o","w">>

BlockPool == <<B_full, B_macros_only, B_short, B_steps>>

Separator == <<NL, "-", "-", "-", NL>>

\* ls joined with the separator
RECURSIVE JoinBlocks(_)
JoinBlocks(ls) ==
    IF Len(ls) = 0 THEN <<>>
    ELSE IF Len(ls) = 1 THEN ls[1]
    ELSE ls[1] \o Separator \o JoinBlocks(Tail(ls))

\* the texts of at most n blocks of the pool
RunTextsOf(n) ==
    {JoinBlocks([i \in 1..Len(f) |-> BlockPool[f[i]]]) :
        f \in UNION {[1..m -> 1..Len(BlockPool)] : m \in 0..n}}

\* the texts given as such
RunTexts == RunTextsOf(MaxBlocks)

\* the texts that come out of an upload or of a web page
FetchedTexts == RunTextsOf(1)

Url == <<"h","t","t","p",":","/","/","x">>

Sources ==
    {[is_file |-> FALSE, data |-> x] : x \in RunTexts \cup {Url}}
    \cup {[is_file |-> TRUE, data |-> x] : x \in FetchedTexts \cup {InvalidUtf8}}

Replies == FetchedTexts \cup {RequestFailed}

----------------------------------------------------------------------------
(* The specification of one call of extract_and_store_all_recipes, made as *)
(* main makes it: on a new connection, which is not in autocommit mode,    *)
(* after create_tables.                                                    *)

Init ==
    /\ fn = "none" /\ arg = <<>> /\ res = <<>>
    /\ source \in Sources
    /\ pc = "start"
    /\ blocks = <<>>
    /\ bi = 0
    /\ title = <<>>
    /\ ingredients = <<>>
    /\ instructions = <<>>
    /\ macros = <<>>
    /\ recipe_id = 0
    /\ k = 0
    /\ \E d \in Databases :
         /\ db = d.tables
         /\ committed = d.tables
         /\ prior = d.tables
         /\ identity = d.identity
    /\ at_identity = 0
    /\ log = <<>>
    /\ saved = {}
    /\ err = "none"

\* raw_text = fetch_text(source_text, is_file); blocks = split_recipes(raw_text)
\* An exception of fetch_text leaves the call.
FetchAndSplit ==
    /\ pc = "start"
    /\ \E reply \in Replies :
         LET r == fetch_text(source, reply)
         IN  IF r.ok
             THEN /\ blocks' = split_recipes(r.text)
                  /\ bi' = 1
                  /\ pc' = "loop"
                  /\ err' = err
             ELSE /\ pc' = "raised"
                  /\ err' = "fetch"
                  /\ UNCHANGED <<blocks, bi>>
    /\ UNCHANGED <<fnVars, source, title, ingredients, instructions, macros,
                   recipe_id, k, db, committed, identity, at_identity, prior,
                   log, saved>>

\* one turn of "for block in blocks" up to the call of save_recipe, or the
\* end of the loop
LoopStep ==
    /\ pc = "loop"
    /\ IF bi > Len(blocks)
       THEN /\ pc' = "done"
            /\ UNCHANGED <<bi, title, ingredients, instructions, macros, saved, k>>
       ELSE IF TooShort(blocks[bi])
       THEN /\ bi' = bi + 1                                     \* continue
            /\ UNCHANGED <<pc, title, ingredients, instructions, macros, saved, k>>
       ELSE LET ings == extract_ingredients(blocks[bi])
                instrs == extract_instructions(blocks[bi])
            IN  /\ title' = title_of(blocks[bi])
                /\ ingredients' = ings
                /\ instructions' = instrs
                /\ macros' = extract_macros(blocks[bi])
                /\ IF Storable(ings, instrs)
                   THEN /\ saved' = saved \cup {bi}
                        /\ pc' = "insert_recipe"
                        /\ k' = 1
                        /\ bi' = bi
                   ELSE /\ bi' = bi + 1
                        /\ UNCHANGED <<pc, saved, k>>
    /\ UNCHANGED <<fnVars, source, blocks, recipe_id, db, committed, identity,
                   at_identity, prior, log, err>>

\* InsertRecipe on a connection in autocommit mode
InsertRecipeAutocommit ==
    /\ pc = "insert_recipe"
    /\ db' = [db EXCEPT !.recipes =
                Append(@, [id |-> identity.recipes + 1, title |-> title])]
    /\ committed' = db'
    /\ identity' = [identity EXCEPT !.recipes = @ + 1]
    /\ at_identity' = identity.recipes + 1
    /\ log' = Logged("insert_recipe", TRUE)
    /\ pc' = "select_identity"
    /\ UNCHANGED <<fnVars, source, blocks, bi, title, ingredients, instructions,
                   macros, recipe_id, k, prior, saved, err>>

\* c.execute("INSERT INTO recipes (title) VALUES (?)", (title,)); the id is
\* the next value of the table's IDENTITY(1,1)
InsertRecipe ==
    /\ pc = "insert_recipe"
    /\ db' = [db EXCEPT !.recipes =
                Append(@, [id |-> identity.recipes + 1, title |-> title])]
    /\ identity' = [identity EXCEPT !.recipes = @ + 1]
    /\ at_identity' = identity.recipes + 1
    /\ log' = Logged("insert_recipe", TRUE)
    /\ pc' = "select_identity"
    /\ UNCHANGED <<fnVars, source, blocks, bi, title, ingredients, instructions,
                   macros, recipe_id, k, committed, prior, saved, err>>

\* c.execute("SELECT @@IDENTITY"); recipe_id = int(c.fetchone()[0])
SelectIdentity ==
    /\ pc = "select_identity"
    /\ recipe_id' = at_identity
    /\ log' = Logged("select_identity", TRUE)
    /\ pc' = StageAfter(2, ingredients, instructions, macros)
    /\ k' = 1
    /\ UNCHANGED <<fnVars, source, blocks, bi, title, ingredients, instructions,
                   macros, db, committed, identity, at_identity, prior, saved, err>>

\* one turn of "for ing in ingredients"
InsertIngredient ==
    /\ pc = "insert_ingredient"
    /\ db' = [db EXCEPT !.ingredients =
                Append(@, [id |-> identity.ingredients + 1, recipe_id |-> recipe_id,
                           ingredient |-> ingredients[k]])]
    /\ identity' = [identity EXCEPT !.ingredients = @ + 1]
    /\ at_identity' = identity.ingredients + 1
    /\ log' = Logged("insert_ingredient", TRUE)
    /\ IF k < Len(ingredients)
       THEN k' = k + 1 /\ pc' = pc
       ELSE k' = 1 /\ pc' = StageAfter(3, ingredients, instructions, macros)
    /\ UNCHANGED <<fnVars, source, blocks, bi, title, ingredients, instructions,
                   macros, recipe_id, committed, prior, saved, err>>

\* one turn of "for idx, instr in enumerate(instructions, 1)"
InsertInstruction ==
    /\ pc = "insert_instruction"
    /\ db' = [db EXCEPT !.instructions =
                Append(@, [id |-> identity.instructions + 1, recipe_id |-> recipe_id,
                           step_number |-> StepNumber(k),
                           instruction |-> instructions[k]])]
    /\ identity' = [identity EXCEPT !.instructions = @ + 1]
    /\ at_identity' = identity.instructions + 1
    /\ log' = Logged("insert_instruction", TRUE)
    /\ IF k < Len(instructions)
       THEN k' = k + 1 /\ pc' = pc
       ELSE k' = 1 /\ pc' = StageAfter(4, ingredients, instructions, macros)
    /\ UNCHANGED <<fnVars, source, blocks, bi, title, ingredients, instructions,
                   macros, recipe_id, committed, prior, saved, err>>

\* one turn of "for name, value in macros.items()"
InsertMacro ==
    /\ pc = "insert_macro"
    /\ db' = [db EXCEPT !.macros =
                Append(@, [id |-> identity.macros + 1, recipe_id |-> recipe_id,
                           name |-> macros[k].name, value |-> macros[k].value])]
    /\ identity' = [identity EXCEPT !.macros = @ + 1]
    /\ at_identity' = identity.macros + 1
    /\ log' = Logged("insert_macro", TRUE)
    /\ IF k < Len(macros)
       THEN k' = k + 1 /\ pc' = pc
       ELSE k' = 1 /\ pc' = StageAfter(5, ingredients, instructions, macros)
    /\ UNCHANGED <<fnVars, source, blocks, bi, title, ingredients, instructions,
                   macros, recipe_id, committed, prior, saved, err>>

\* Commit left out: save_recipe returns without conn.commit()
CommitSkipped ==
    /\ pc = "commit"
    /\ bi' = bi + 1
    /\ pc' = "loop"
    /\ UNCHANGED <<fnVars, source, blocks, title, ingredients, instructions,
                   macros, recipe_id, k, db, committed, identity, at_identity,
                   prior, log, saved, err>>

\* conn.commit(), the return of save_recipe, and the next turn of the loop
Commit ==
    /\ pc = "commit"
    /\ committed' = db
    /\ log' = Logged("commit", TRUE)
    /\ bi' = bi + 1
    /\ pc' = "loop"
    /\ UNCHANGED <<fnVars, source, blocks, title, ingredients, instructions,
                   macros, recipe_id, k, db, identity, at_identity, prior,
                   saved, err>>

\* StoreFails with the exception caught around save_recipe, the loop going on
StoreFailsSwallowed ==
    /\ \E n \in 1..Len(StoreStages) : pc = StoreStages[n]
    /\ log' = Logged(pc, FALSE)
    /\ bi' = bi + 1
    /\ pc' = "loop"
    /\ UNCHANGED <<fnVars, source, blocks, title, ingredients, instructions,
                   macros, recipe_id, k, db, committed, identity, at_identity,
                   prior, saved, err>>

\* the store call save_recipe is about to make raises: nothing catches the
\* exception, which leaves save_recipe and extract_and_store_all_recipes
StoreFails ==
    /\ \E n \in 1..Len(StoreStages) : pc = StoreStages[n]
    /\ log' = Logged(pc, FALSE)
    /\ pc' = "raised"
    /\ err' = "store"
    /\ UNCHANGED <<fnVars, source, blocks, bi, title, ingredients, instructions,
                   macros, recipe_id, k, db, committed, identity, at_identity,
                   prior, saved>>

Next ==
    \/ FetchAndSplit
    \/ LoopStep
    \/ InsertRecipe
    \/ SelectIdentity
    \/ InsertIngredient
    \/ InsertInstruction
    \/ InsertMacro
    \/ Commit
    \/ StoreFails

Spec == Init /\ [][Next]_vars

----------------------------------------------------------------------------
(* Claims about the pure functions, checked under SpecExtract.             *)

\* the i-th smallest element of the set of integers D
NthOf(D, i) == CHOOSE d \in D : Cardinality({e \in D : e < d}) = i - 1

\* the stripped lines of a text
StrippedLines(text) ==
    LET ls == SplitLines(text) IN [i \in 1..Len(ls) |-> Strip(ls[i])]

\* x is an element of the sequence s
InSeq(x, s) == \E i \in 1..Len(s) : s[i] = x

\* ---- C7 ----------------------------------------------------------------

\* the delimiter begins at position q of s: q is the start of the text or
\* follows a line feed, and at q stands "recipe" (in any case, as
\* re.IGNORECASE has it), an optional white space and a colon, or three "=",
\* or three "-"
DelimiterAt(s, q) ==
    /\ q = 1 \/ s[q - 1] = NL
    /\ \/ \A j \in 0..2 : q + j <= Len(s) /\ s[q + j] = "="
       \/ \A j \in 0..2 : q + j <= Len(s) /\ s[q + j] = "-"
       \/ /\ HasAtI(s, q, W_recipe)
          /\ \/ HasAt(s, q + 6, <<":">>)
             \/ \E w \in WhiteSpace : HasAt(s, q + 6, <<w, ":">>)

\* the first position after the delimiter that begins at q: the whole run of
\* "=" or of "-" belongs to it, and "recipe" up to its colon
DelimiterStop(s, q) ==
    IF s[q] \in {"=", "-"}
    THEN CHOOSE e \in (q + 3)..(Len(s) + 1) :
            /\ \A j \in q..(e - 1) : s[j] = s[q]
            /\ e > Len(s) \/ s[e] # s[q]
    ELSE CHOOSE e \in {q + 7, q + 8} : s[e - 1] = ":"

\* the blocks of s, told from the delimiters: what lies between the end of
\* one delimiter and the line feed before the next
BlocksBetweenDelimiters(s) ==
    LET D == {q \in 1..Len(s) : DelimiterAt(s, q)}
        n == Cardinality(D)
        from(i) == IF i = 1 THEN 1 ELSE DelimiterStop(s, NthOf(D, i - 1))
        to(i) == IF i = n + 1 THEN Len(s) ELSE NthOf(D, i) - 2
    IN  [i \in 1..(n + 1) |-> SubSeq(s, from(i), to(i))]

\* C7 as amended: split_recipes splits the text at every delimiter that
\* stands at the start of the text or after a line feed -- "recipe", an
\* optional white space and a colon (the colon is required), or a run of
\* three or more "=" or "-", whatever follows the run on its line.  Only
\* the delimiter and the line feed before it are removed, there is one block more than there are delimiters, the blocks
\* keep their order, and a text without delimiter is its own single block.
\* "---ab" splits (into "" and "ab"); "recipe cake" does not.
C7_SplitAtDelimiters ==
    (fn = "split_recipes" /\ Returned) =>
        /\ res[1] = BlocksBetweenDelimiters(arg)
        /\ arg = L_dashes_ab => res[1] = << <<>>, <<"a", "b">> >>
        /\ arg = L_recipe_cake => res[1] = <<arg>>

\* a text that begins with the line "---ab" and holds further delimiters has
\* been split
C7_Witness ==
    /\ fn = "split_recipes" /\ Returned
    /\ HasAt(arg, 1, L_dashes_ab)
    /\ Len(res[1]) >= 3

\* a delimiter line as the claim has it: one that begins with "recipe", or
\* consists of three or more "=" only, or of three or more "-" only
ClaimedDelimiterLine(line) ==
    \/ StartsWith(LowerSeq(line), W_recipe)
    \/ Len(line) >= 3 /\ \A j \in 1..Len(line) : line[j] = "="
    \/ Len(line) >= 3 /\ \A j \in 1..Len(line) : line[j] = "-"

\* C7 as claimed: the number of blocks is the number of such lines plus one,
\* and a text without such a line is its own single block
C7_AsClaimed ==
    (fn = "split_recipes" /\ Returned) =>
        LET ls == SplitLines(arg)
            n == Cardinality({i \in 1..Len(ls) : ClaimedDelimiterLine(ls[i])})
        IN  /\ Len(res[1]) = n + 1
            /\ n = 0 => res[1] = <<arg>>

\* ---- C6 ----------------------------------------------------------------

\* rule (a), told as the pattern reads, with no choice made for the matcher:
\* an optional bullet, white space, digits, an optional fraction, an optional
\* white space, a unit word, a word boundary
RuleA(l) ==
    LET digitsIn(a, b) == \A j \in a..b : IsDigit(l[j])
    IN  \E b \in {0, 1} :
          /\ b = 1 => (Len(l) >= 1 /\ l[1] \in Bullets)
          /\ \E w \in b..Len(l) :
               /\ \A j \in (b + 1)..w : IsSpace(l[j])
               /\ \E d \in (w + 1)..Len(l) :
                    /\ digitsIn(w + 1, d)
                    /\ \E f \in {d} \cup (d + 2)..Len(l) :
                         /\ f > d => (l[d + 1] = "." /\ digitsIn(d + 2, f))
                         /\ \E s \in {f, f + 1} :
                              /\ s > f => (s <= Len(l) /\ IsSpace(l[s]))
                              /\ \E i \in 1..Len(UnitWords) :
                                   /\ HasAtI(l, s + 1, UnitWords[i])
                                   /\ LET e == s + Len(UnitWords[i])
                                      IN  e = Len(l) \/ ~IsWordChar(l[e + 1])

\* rule (b), told the same way: an optional bullet, white space, digits, a
\* white space; and one of the unit substrings anywhere in the line
RuleB(l) ==
    /\ \E b \in {0, 1} :
         /\ b = 1 => (Len(l) >= 1 /\ l[1] \in Bullets)
         /\ \E w \in b..Len(l) :
              /\ \A j \in (b + 1)..w : IsSpace(l[j])
              /\ \E d \in (w + 1)..(Len(l) - 1) :
                   /\ \A j \in (w + 1)..d : IsDigit(l[j])
                   /\ IsSpace(l[d + 1])
    /\ \E i \in 1..Len(UnitSubstrings) : Contains(LowerSeq(l), UnitSubstrings[i])

RuleAOrB(l) == RuleA(l) \/ RuleB(l)

\* C6 as amended: extract_ingredients keeps "2 cups flour" and keeps
\* "2 cupcakes" too.  Neither line meets rule (a), whose unit word must be a
\* whole word; both meet rule (b), which asks for a number, a white space and
\* the substring "cup" anywhere.  "2cupcakes" meets neither rule and is
\* discarded.  The output is, in order, the stripped lines that meet rule
\* (a) or rule (b); a line that fails both is absent.
C6_KeepsRuleAOrB ==
    (fn = "extract_ingredients" /\ Returned) =>
        LET ls == StrippedLines(arg)
        IN  /\ res[1] = SelectSeq(ls, RuleAOrB)
            /\ InSeq(L_2_cups_flour, ls) => InSeq(L_2_cups_flour, res[1])
            /\ InSeq(L_2_cupcakes, ls) => InSeq(L_2_cupcakes, res[1])
            /\ ~InSeq(L_2cupcakes, res[1])
            /\ ~RuleA(L_2_cups_flour) /\ ~RuleA(L_2_cupcakes)

\* a text with all three lines has been processed
C6_Witness ==
    /\ fn = "extract_ingredients" /\ Returned
    /\ LET ls == StrippedLines(arg)
       IN  InSeq(L_2_cups_flour, ls) /\ InSeq(L_2_cupcakes, ls) /\ InSeq(L_2cupcakes, ls)
    /\ Len(res[1]) = 2

\* C6 as claimed: "2 cups flour" is kept, "2 cupcakes" is discarded, and a
\* line that fails both rules is absent
C6_AsClaimed ==
    (fn = "extract_ingredients" /\ Returned) =>
        LET ls == StrippedLines(arg)
        IN  /\ InSeq(L_2_cups_flour, ls) => InSeq(L_2_cups_flour, res[1])
            /\ ~InSeq(L_2_cupcakes, res[1])
            /\ \A i \in 1..Len(ls) : ~RuleAOrB(ls[i]) => ~InSeq(ls[i], res[1])

\* ---- C2 ----------------------------------------------------------------

\* l holds one of the words ws, in any case
HoldsWord(l, ws) ==
    \E i \in 1..Len(ws) : Contains(LowerSeq(l), ws[i])

\* l has more than two words: three characters that are no white space,
\* with white space between the first two and between the last two
MoreThanTwoWords(l) ==
    \E a \in 1..Len(l) : \E b \in (a + 1)..Len(l) : \E c \in (b + 1)..Len(l) :
        /\ ~IsSpace(l[a]) /\ ~IsSpace(l[b]) /\ ~IsSpace(l[c])
        /\ \E x \in (a + 1)..(b - 1) : IsSpace(l[x])
        /\ \E y \in (b + 1)..(c - 1) : IsSpace(l[y])

\* l passes the three filters of the capture
PassesFilters(l) ==
    /\ l # <<>>
    /\ ~HasAt(LowerSeq(l), 1, W_tag_us)
    /\ MoreThanTwoWords(l)

\* the lines strictly between the first header line and the first stop line
\* after it, filtered; nothing when there is no header line
StepsBetweenHeaderAndStop(text) ==
    LET ls == StrippedLines(text)
        H == {i \in 1..Len(ls) : HoldsWord(ls[i], HeaderWords)}
    IN  IF H = {} THEN <<>>
        ELSE LET h == NthOf(H, 1)
                 S == {i \in (h + 1)..Len(ls) : HoldsWord(ls[i], StopWords)}
                 s == IF S = {} THEN Len(ls) + 1 ELSE NthOf(S, 1)
             IN  SelectSeq([j \in 1..(s - h - 1) |-> ls[h + j]], PassesFilters)

\* C2: the output of extract_instructions is, in order, the trimmed lines
\* strictly after the first header line and strictly before the first later
\* stop line that are non-empty, do not start with "tag us" and have more
\* than two words; the stop is terminal, and without header line the output
\* is empty.
C2_CaptureBetweenHeaderAndStop ==
    (fn = "extract_instructions" /\ Returned) =>
        /\ res[1] = StepsBetweenHeaderAndStop(arg)
        /\ (~\E i \in 1..Len(StrippedLines(arg)) :
                HoldsWord(StrippedLines(arg)[i], HeaderWords)) => res[1] = <<>>

\* header, step, stop, and a step after the stop: one line was captured
C2_Witness ==
    /\ fn = "extract_instructions" /\ Returned
    /\ arg = JoinLines(<<L_header, L_step, L_stop, L_step>>)
    /\ res[1] = <<Strip(L_step)>>

\* ---- C8 ----------------------------------------------------------------

\* C8: extract_macros returns at most one value per name, the names being
\* the lowercased names the scan matched; a name is in the mapping exactly
\* when the scan found an occurrence of it, and its value is that of its
\* last occurrence; without occurrence the mapping is empty.
\* "fat 5 ... fat 8" gives fat = 8.
C8_LastOccurrenceWins ==
    (fn = "extract_macros" /\ Returned) =>
        LET ms == FindMacros(arg, 1)
            d == res[1]
        IN  /\ \A i, j \in 1..Len(d) : d[i].name = d[j].name => i = j
            /\ \A i \in 1..Len(d) : LowerSeq(d[i].name) = d[i].name
            /\ {d[i].name : i \in 1..Len(d)} = {ms[j].name : j \in 1..Len(ms)}
            /\ \A i \in 1..Len(d) :
                 LET last == NthOf({-j : j \in {x \in 1..Len(ms) : ms[x].name = d[i].name}}, 1)
                 IN  d[i].value = ms[-last].value
            /\ ms = <<>> => d = <<>>
            /\ arg = T_fat_5_fat_8 => d = <<[name |-> <<"f", "a", "t">>, value |-> << <<"8">>, 0 >>]>>

\* "fat 5 ... fat 8" has been scanned
C8_Witness ==
    /\ fn = "extract_macros" /\ Returned
    /\ arg = T_fat_5_fat_8
    /\ Len(res[1]) = 1

----------------------------------------------------------------------------
(* Claims about extract_and_store_all_recipes, checked under Spec.         *)

\* the recipe rows of this call: those after the rows the call found
OwnRecipes(tables) == (Len(prior.recipes) + 1)..Len(tables.recipes)

\* the block the r-th recipe row was made from: save_recipe inserts one row
\* per call, and the calls are made in the order of the blocks
BlockOf(r) == blocks[NthOf(saved, r - Len(prior.recipes))]

\* the loop has dealt with block i: it is past it, or inside save_recipe
\* for it
Handled(i) == i < bi \/ (i = bi /\ pc # "loop")

\* ---- C1 ----------------------------------------------------------------

\* block is at least 20 characters long once trimmed, and has a line that
\* meets an ingredient rule or a step between its header and its stop
Qualifies(block) ==
    /\ Len(Strip(block)) >= 20
    /\ \/ \E i \in 1..Len(StrippedLines(block)) : RuleAOrB(StrippedLines(block)[i])
       \/ StepsBetweenHeaderAndStop(block) # <<>>

\* C1: save_recipe is called for a block the loop has dealt with if and only
\* if the block's trimmed length is at least 20 and it has an ingredient or
\* an instruction; for no other block a call is made on the store.
C1_SavedIffQualifies ==
    /\ \A i \in 1..Len(blocks) :
         /\ Handled(i) => (i \in saved <=> Qualifies(blocks[i]))
         /\ ~Handled(i) => i \notin saved
    /\ \A a \in 1..Len(log) : log[a].block \in saved
    /\ Len(db.recipes) <= Len(prior.recipes) + Cardinality(saved)

\* a run has ended that saved a block and passed over a short block that
\* holds an ingredient line and over a block that yields macros only
C1_Witness ==
    /\ pc = "done"
    /\ saved # {}
    /\ \E i \in 1..Len(blocks) :
         /\ i \notin saved
         /\ Strip(blocks[i]) = B_short
         /\ extract_ingredients(blocks[i]) # <<>>
    /\ \E i \in 1..Len(blocks) :
         /\ i \notin saved
         /\ Strip(blocks[i]) = B_macros_only
         /\ extract_macros(blocks[i]) # <<>>

\* ---- C3 ----------------------------------------------------------------

\* the rows of a table that belong to the recipe id
RowsOf(table, id) == SelectSeq(table, LAMBDA x : x.recipe_id = id)

\* C3: the instruction rows of every recipe carry the step numbers 1, 2,
\* ... in the order extract_instructions emitted the lines, with no gap and
\* no repeat; once the recipe is committed there are N of them.
C3_StepsNumberedFromOne ==
    \A r \in OwnRecipes(db) :
        LET rows == RowsOf(db.instructions, db.recipes[r].id)
            steps == extract_instructions(BlockOf(r))
        IN  /\ Len(rows) <= Len(steps)
            /\ \A j \in 1..Len(rows) :
                 rows[j].step_number = j /\ rows[j].instruction = steps[j]
            /\ r <= Len(committed.recipes) => Len(rows) = Len(steps)

\* a recipe is committed whose block had lines between its two steps that
\* the filters skipped
C3_Witness ==
    \E r \in OwnRecipes(committed) :
        /\ Strip(BlockOf(r)) = B_steps
        /\ Len(RowsOf(committed.instructions, committed.recipes[r].id)) = 2

\* ---- C4 ----------------------------------------------------------------

\* C4: the store calls are made block by block in the order of the blocks:
\* a call for a block never follows a call for a later block, and between
\* the calls for two blocks lies the commit of the earlier one.
C4_BlockByBlock ==
    \A a, b \in 1..Len(log) :
        a < b =>
            /\ log[a].block <= log[b].block
            /\ log[a].block < log[b].block =>
                 \E c \in a..(b - 1) :
                    log[c].block = log[a].block /\ log[c].op = "commit" /\ log[c].ok

\* two blocks have been written
C4_Witness ==
    \E a, b \in 1..Len(log) : log[a].block < log[b].block /\ log[b].op = "commit"

\* ---- C5 ----------------------------------------------------------------

\* C5 as claimed: the title is "Untitled Recipe" when the pattern has no
\* match or the matched run is empty once trimmed, so for a block that
\* starts with a digit and has no letter before its first white space; and
\* no stored title is empty.
C5_AsClaimed ==
    /\ \A r \in OwnRecipes(db) : db.recipes[r].title # <<>>
    /\ \A r \in OwnRecipes(db) :
         LET s == Strip(BlockOf(r))
             g == TitleSearch(s, 1)
         IN  (g = 0 \/ Strip(SubSeq(s, g, RunEnd(s, g) - 1)) = <<>>)
                => db.recipes[r].title = W_untitled

\* ---- C9 ----------------------------------------------------------------

\* C9: a failure of fetch_text ends the call in failure with no block
\* processed and no call made on the store; a store call that fails is the
\* last call made on the store -- it is not made again and nothing follows
\* it -- and the call has ended in failure.
C9_FailuresPropagate ==
    /\ err = "fetch" =>
         /\ pc = "raised"
         /\ blocks = <<>> /\ bi = 0 /\ saved = {}
         /\ log = <<>> /\ db = prior /\ committed = prior
    /\ (source.is_file /\ source.data = InvalidUtf8) => pc \in {"start", "raised"}
    /\ \A a \in 1..Len(log) :
         ~log[a].ok => (a = Len(log) /\ pc = "raised" /\ err = "store")
    /\ pc = "raised" <=> err # "none"

\* a store call has failed after others had been made
C9_Witness ==
    /\ pc = "raised" /\ err = "store"
    /\ Len(log) >= 3
    /\ ~log[Len(log)].ok

\* ---- C10 ---------------------------------------------------------------

\* the rows the call found are still there; every recipe row of this call
\* has an id of its own and all the rows extracted from its block; and
\* every other row belongs to a recipe row
WholeRecipes(tables) ==
    /\ \A T \in {"recipes", "ingredients", "instructions", "macros"} :
         SubSeq(tables[T], 1, Len(prior[T])) = prior[T]
    /\ \A r, q \in 1..Len(tables.recipes) :
         tables.recipes[r].id = tables.recipes[q].id => r = q
    /\ \A r \in OwnRecipes(tables) :
         LET id == tables.recipes[r].id
             ings == RowsOf(tables.ingredients, id)
             steps == RowsOf(tables.instructions, id)
             macs == RowsOf(tables.macros, id)
         IN  /\ [j \in 1..Len(ings) |-> ings[j].ingredient]
                  = extract_ingredients(BlockOf(r))
             /\ [j \in 1..Len(steps) |-> steps[j].instruction]
                  = extract_instructions(BlockOf(r))
             /\ [j \in 1..Len(macs) |-> [name |-> macs[j].name, value |-> macs[j].value]]
                  = extract_macros(BlockOf(r))
    /\ \A T \in {tables.ingredients, tables.instructions, tables.macros} :
         \A j \in 1..Len(T) :
            \E r \in 1..Len(tables.recipes) : tables.recipes[r].id = T[j].recipe_id

\* C10: whatever the run, and wherever a store call fails, the committed
\* tables hold whole recipes only.
C10_CommittedRecipesAreWhole == WholeRecipes(committed)

\* on a database that held a recipe, a store call failed inside the second
\* recipe of the call: its rows are in the connection's transaction, and
\* the first recipe alone has been committed
C10_Witness ==
    /\ pc = "raised" /\ err = "store"
    /\ prior.recipes # <<>>
    /\ Len(committed.recipes) = Len(prior.recipes) + 1
    /\ Len(db.recipes) = Len(prior.recipes) + 2
    /\ Len(db.ingredients) > Len(committed.ingredients)

====
